---- MODULE Spec2Model ----
(***************************************************************************)
(* Model of server/server.js of the chat application: the socket.io        *)
(* handlers (joinRoom, join, message, disconnect), the upload endpoint,    *)
(* the expiry sweep (cleanupExpiredFiles / deleteFile) and the SIGINT      *)
(* handler.  Every handler is cut at its await points: one action per      *)
(* synchronous stretch of code.  A store operation takes effect in the     *)
(* step in which the awaiting handler resumes; operations issued by        *)
(* different handlers complete in any order.                               *)
(*                                                                         *)
(* Modelling decisions:                                                    *)
(*  - the User collection (pastUsers) is left out: no handler decides      *)
(*    anything on it; its two awaits in joinRoom are one suspension;       *)
(*  - a connection has one joinRoom or join handler in flight at a time;   *)
(*  - createdAt is the rank of the handler's new Date() (no two equal);    *)
(*  - a filename is the id of the upload's message (multer's names are     *)
(*    unique), 0 names a file left by an earlier run;                      *)
(*  - the uploads directory exists; unlinkSync fails only on a file that   *)
(*    is gone or that the file system refuses to unlink (locked); a store  *)
(*    operation fails only where an action says so (JoinFails,             *)
(*    MessageSaveFails, UploadSaveFails, SweepResumeFails,                 *)
(*    ShutdownCleanupFails) and none succeeds when mongoose.connect()      *)
(*    has failed (db);                                                     *)
(*  - one SIGINT is delivered in a run;                                    *)
(*  - the text of a message is its length, a file its size and MIME type;  *)
(*  - creator is history the code does not keep: the connection whose      *)
(*    joinRoom made the persistence entry of a room; so are the fields     *)
(*    added of a socket and flag and before of a join handler.             *)
(***************************************************************************)
EXTENDS Integers, Sequences, FiniteSets, TLC

\* ------------------------------------------------------------------ bounds
MaxJoins == 2      \* joinRoom events accepted in one run
MaxMsgs == 2       \* 'message' events accepted in one run
MaxUploads == 2    \* upload requests accepted in one run
MaxPersistMsgs == 3  \* messages and uploads in a run checked for persistence
MaxLiveUploads == 1  \* upload requests accepted in a run checked for liveness
MaxInputMsgs == 2    \* messages and uploads in a run checked for input validation

\* ------------------------------------------------------------------ values
Conn == {"c1", "c2"}
Nick == {"alice", "bob"}
Room == {"r1", "r2"}
NoNick == "undefined"
\* The empty string, as a nickname or a room code.
Empty == ""
\* The longest text the client's submit handler sends, and the lengths of
\* data.text a 'message' event may carry.
MaxTextLen == 1000
TextLens == {MaxTextLen, MaxTextLen + 1}
\* The largest file the client's upload handler sends (5 * 1024 * 1024 bytes), the
\* sizes and the MIME types an upload request may carry, and the types the
\* documented fileFilter lets through.
MaxFileSize == 5242880
FileSizes == {MaxFileSize, MaxFileSize + 1}
Mimes == {"image/png", "application/javascript"}
AllowedTypes == {"image/png"}
MsgId == 1..(MaxMsgs + MaxUploads)

VARIABLES
  proc,             \* process: "loading", "running", "shutting", "closing", "exited"
  sockets,          \* per connection: connected, socket.username, socket.rooms, and
                    \* added: the <<room, username>> of its rooms.get(room).add(username)
  rooms,            \* Map room -> Set of usernames, both in insertion order
  roomPersistence,  \* Map room -> persist flag (a partial function)
  joins,            \* per connection: the joinRoom handler in flight
  msgs,             \* every message built by a handler, in order of its new Date()
                    \* (and every upload request answered without one)
  store,            \* the Message collection: message id -> stored document
  bcast,            \* ids of text/file messages in the order of io.to(room).emit
  inbox,            \* per connection: the events it received, in order
  attached,         \* <<connection, room, nickname, flag>> of every live joinRoom,
                    \* flag being roomPersistence.get(room) as that joinRoom left it
  disk,             \* filenames present in uploads/
  aged,             \* filenames whose age has reached FILE_EXPIRY_TIME
  uploadedFiles,    \* keys of the uploadedFiles Map
  sweep,            \* per sweep slot: the cleanupExpiredFiles run in flight
  sdFiles,          \* the directory listing taken by the SIGINT handler
  expired,          \* filenames for which a deleteFile call has returned
  nJoins,           \* joinRoom events received so far
  creator,          \* room -> the connection whose joinRoom made its roomPersistence entry
  db,               \* mongoose.connect: "none" (not called), "connected", "failed"
  locked            \* filenames in uploads/ whose unlinkSync throws (in use, no permission)

vars == <<proc, sockets, rooms, roomPersistence, joins, msgs, store, bcast, inbox,
          attached, disk, aged, uploadedFiles, sweep, sdFiles, expired, nJoins,
          creator, db, locked>>

chatVars == <<sockets, rooms, roomPersistence, joins, attached, nJoins, creator>>
fileVars == <<disk, aged, uploadedFiles, sweep, sdFiles, expired, locked>>

\* ------------------------------------------------------------------ helpers
\* The process handles events from server.listen() until process.exit().
Serving == proc \in {"running", "shutting", "closing"}
\* Store operations complete while the connection mongoose.connect() made is up,
\* until mongoose.connection.close() is called.
StoreOpen == proc \in {"running", "shutting"} /\ db = "connected"

\* Set.prototype.add / delete / has on a JS Set kept in insertion order.
SetHas(s, x) == \E i \in 1..Len(s) : s[i] = x
\* Mutant: an array push in place of Set.prototype.add.
SetPush(s, x) == Append(s, x)
SetAdd(s, x) == IF SetHas(s, x) THEN s ELSE Append(s, x)
SetDelete(s, x) == SelectSeq(s, LAMBDA y : y # x)

\* rooms is a JS Map: a sequence of [room, users] entries in insertion order.
RoomsGet(r) == rooms[CHOOSE i \in 1..Len(rooms) : rooms[i].room = r].users

\* rooms.has(room).
RoomsHas(rs, r) == \E i \in 1..Len(rs) : rs[i].room = r

\* Mutant: roomPersistence.has(room) in place of .get(room).
PersistentHas(r) == r \in DOMAIN roomPersistence
\* roomPersistence.get(room), used as a condition (undefined is falsy).
Persistent(r) == r \in DOMAIN roomPersistence /\ roomPersistence[r]
\* roomPersistence.get(room), as sent in roomData.
PersistField(r) ==
  IF r \in DOMAIN roomPersistence
  THEN IF roomPersistence[r] THEN "true" ELSE "false"
  ELSE "undefined"

\* The connections io.to(room).emit reaches: the connected sockets in the room.
Subscribers(ss, r) == {c \in Conn : ss[c].connected /\ r \in ss[c].rooms}

\* fileUrl of an uploaded file: `/uploads/${file.filename}`; null when absent.
Url(f) == <<"/uploads/", f>>
NullUrl == <<>>

NoEvent == [ev |-> "none", room |-> "none", users |-> <<>>, messages |-> <<>>,
            persist |-> "undefined", id |-> 0, who |-> NoNick, att |-> {},
            fileUrl |-> NullUrl]
RoomData(r, users, hist, p, att) ==
  [NoEvent EXCEPT !.ev = "roomData", !.room = r, !.users = users,
                  !.messages = hist, !.persist = p, !.att = att]
RoomUsers(r, users) == [NoEvent EXCEPT !.ev = "roomUsers", !.room = r, !.users = users]
SystemMsg(r, what, n) == [NoEvent EXCEPT !.ev = what, !.room = r, !.who = n]
LiveMsg(r, id) == [NoEvent EXCEPT !.ev = "message", !.room = r, !.id = id]
\* Mutant: the file event emitted without its fileUrl.
FileMsgNoUrl(r, f) == [NoEvent EXCEPT !.ev = "message", !.room = r, !.id = f]
\* The 'message' event of the upload endpoint: type 'file', with its fileUrl.
FileMsg(r, f) == [NoEvent EXCEPT !.ev = "message", !.room = r, !.id = f, !.fileUrl = Url(f)]
\* socket.emit('error', ...) of a handler's catch block; id names the message of
\* the 'message' handler (0 for joinRoom).
ErrorEvent(r, id) == [NoEvent EXCEPT !.ev = "error", !.room = r, !.id = id]

\* Deliver event e to every connection of `to`.
Deliver(box, to, e) == [c \in Conn |-> IF c \in to THEN Append(box[c], e) ELSE box[c]]

\* Message.find({ room }).sort({ createdAt: 1 }): ids of the stored documents of
\* the room, by ascending createdAt.
RECURSIVE SortByCreatedAt(_, _)
SortByCreatedAt(st, ids) ==
  IF ids = {} THEN <<>>
  ELSE LET first == CHOOSE i \in ids : \A j \in ids : st[i].createdAt <= st[j].createdAt
       IN <<first>> \o SortByCreatedAt(st, ids \ {first})
History(r) == SortByCreatedAt(store, {i \in DOMAIN store : store[i].room = r})

SweepId == {"s1", "s2"}
IdleSweep == [pc |-> "idle", files |-> <<>>, old |-> {}, idx |-> 0, update |-> FALSE,
              failed |-> {}]

\* What a join request found: whether the member set of the room had the
\* nickname, whether the socket was subscribed to the room, the flag of the room.
Before(c, username, room) ==
  [member |-> IF RoomsHas(rooms, room) THEN SetHas(RoomsGet(room), username) ELSE FALSE,
   sub |-> room \in sockets[c].rooms,
   flag |-> PersistField(room)]
NoBefore == [member |-> FALSE, sub |-> FALSE, flag |-> "none"]
\* flag is roomPersistence.get(room) when the handler in flight took its event.
IdleJoin == [pc |-> "idle", room |-> "none", username |-> NoNick,
             persist |-> FALSE, isCreator |-> FALSE, flag |-> "none",
             before |-> NoBefore]

\* ------------------------------------------------------------------ Init
\* What a run of the server that was killed can leave behind: an uploaded file
\* (filename 0) in uploads/, and its file message in the store when its room was
\* persistent.
LegacyFile == 0
LegacyDoc ==
  [room |-> "r1", type |-> "file", text |-> "original",
   fileUrl |-> <<"/uploads/", LegacyFile>>, createdAt |-> 0]

\* The process at the first line of server.js: its maps are empty, no handler runs.
InitMemory ==
  /\ proc = "loading"
  /\ db = "none"
  /\ locked = {}
  /\ sockets = [c \in Conn |-> [connected |-> TRUE, username |-> NoNick, rooms |-> {},
                                 added |-> {}]]
  /\ rooms = <<>>
  /\ roomPersistence = <<>>
  /\ joins = [c \in Conn |-> IdleJoin]
  /\ msgs = <<>>
  /\ bcast = <<>>
  /\ inbox = [c \in Conn |-> <<>>]
  /\ attached = {}
  /\ uploadedFiles = {}
  /\ sweep = [s \in SweepId |-> IdleSweep]
  /\ sdFiles = <<>>
  /\ expired = {}
  /\ nJoins = 0
  /\ creator = <<>>

\* The same maps once server.js has run to server.listen().
InitRunning ==
  /\ proc = "running"
  /\ db = "connected"
  /\ locked = {}
  /\ sockets = [c \in Conn |-> [connected |-> TRUE, username |-> NoNick, rooms |-> {},
                                 added |-> {}]]
  /\ rooms = <<>>
  /\ roomPersistence = <<>>
  /\ joins = [c \in Conn |-> IdleJoin]
  /\ msgs = <<>>
  /\ bcast = <<>>
  /\ inbox = [c \in Conn |-> <<>>]
  /\ attached = {}
  /\ sweep = [s \in SweepId |-> IdleSweep]
  /\ sdFiles = <<>>
  /\ expired = {}
  /\ nJoins = 0
  /\ creator = <<>>

\* A fresh installation: an empty store and an empty uploads directory.
Init ==
  /\ InitMemory
  /\ store = <<>>
  /\ disk = {}
  /\ aged = {}

\* A start after a killed run: the legacy file may be there, of any age, with or
\* without its stored message.
InitFiles ==
  /\ InitMemory
  /\ disk \in {{}, {LegacyFile}}
  /\ aged \in SUBSET disk
  /\ store \in {<<>>} \cup {[i \in {f} |-> LegacyDoc] : f \in disk}

\* ------------------------------------------------------------------ joinRoom
\* rooms.get(room).add(username), creating the entry when the room has none.
RoomsAdd(rs, r, n) ==
  IF \E i \in 1..Len(rs) : rs[i].room = r
  THEN [i \in 1..Len(rs) |->
          IF rs[i].room = r THEN [rs[i] EXCEPT !.users = SetAdd(@, n)] ELSE rs[i]]
  ELSE Append(rs, [room |-> r, users |-> <<n>>])

\* Mutant: roomPersistence.set(room, persist) without the isCreator test.
SetPersistenceAlways(rp, room, persist, isCreator) ==
  [r \in DOMAIN rp \cup {room} |-> IF r = room THEN persist ELSE rp[r]]
\* if (isCreator) roomPersistence.set(room, persist).
SetPersistence(rp, room, persist, isCreator) ==
  IF isCreator
  THEN [r \in DOMAIN rp \cup {room} |-> IF r = room THEN persist ELSE rp[r]]
  ELSE rp

\* socket.on('joinRoom'), up to its first await (user.save()).
JoinRoom(c, username, room, persist, isCreator) ==
  /\ Serving
  /\ sockets[c].connected
  /\ joins[c].pc = "idle"
  /\ nJoins < MaxJoins
  /\ nJoins' = nJoins + 1
  /\ sockets' = [sockets EXCEPT ![c].username = username, ![c].rooms = @ \cup {room},
                                ![c].added = @ \cup {<<room, username>>}]
  /\ roomPersistence' = SetPersistence(roomPersistence, room, persist, isCreator)
  /\ rooms' = RoomsAdd(rooms, room, username)
  /\ joins' = [joins EXCEPT ![c] = [pc |-> "users", room |-> room, username |-> username,
                                    persist |-> persist, isCreator |-> isCreator,
                                    flag |-> IF isCreator
                                             THEN (IF persist THEN "true" ELSE "false")
                                             ELSE PersistField(room),
                                    before |-> Before(c, username, room)]]
  /\ attached' = {t \in attached : ~(t[1] = c /\ t[2] = room)}
                   \cup {<<c, room, username,
                           IF isCreator THEN (IF persist THEN "true" ELSE "false")
                           ELSE PersistField(room)>>}
  /\ creator' = IF isCreator /\ room \notin DOMAIN roomPersistence
                THEN [r \in DOMAIN creator \cup {room} |->
                        IF r = room THEN c ELSE creator[r]]
                ELSE creator
  /\ UNCHANGED <<db, proc, msgs, store, bcast, inbox>>
  /\ UNCHANGED fileVars

\* The emits that end the joinRoom handler: roomData to the joiner, roomUsers to
\* the others of the room, the 'has joined' message to the whole room.
JoinEmits(c, hist) ==
  LET r == joins[c].room
      users == RoomsGet(r)
      subs == Subscribers(sockets, r)
      att == {t \in attached : t[2] = r}
      b1 == Deliver(inbox, {c} \cap {d \in Conn : sockets[d].connected},
                    RoomData(r, users, hist, PersistField(r), att))
      b2 == Deliver(b1, subs \ {c}, RoomUsers(r, users))
  IN Deliver(b2, subs, SystemMsg(r, "joined", joins[c].username))

\* joinRoom resumes after user.save() and User.find(): without persistence it
\* emits at once, with persistence it awaits Message.find().
JoinUsersDone(c) ==
  /\ StoreOpen
  /\ joins[c].pc = "users"
  /\ IF Persistent(joins[c].room)
     THEN /\ joins' = [joins EXCEPT ![c].pc = "history"]
          /\ UNCHANGED inbox
     ELSE /\ joins' = [joins EXCEPT ![c] = IdleJoin]
          /\ inbox' = JoinEmits(c, <<>>)
  /\ UNCHANGED <<db, proc, sockets, rooms, roomPersistence, attached, nJoins, creator,
                 msgs, store, bcast>>
  /\ UNCHANGED fileVars

\* joinRoom resumes after Message.find() and emits.
JoinHistoryDone(c) ==
  /\ StoreOpen
  /\ joins[c].pc = "history"
  /\ joins' = [joins EXCEPT ![c] = IdleJoin]
  /\ inbox' = JoinEmits(c, History(joins[c].room))
  /\ UNCHANGED <<db, proc, sockets, rooms, roomPersistence, attached, nJoins, creator,
                 msgs, store, bcast>>
  /\ UNCHANGED fileVars

\* user.save(), User.find() or Message.find() of the joinRoom of c has rejected:
\* the catch of lines 204-207 logs and emits 'error' to the joining socket.
JoinFails(c) ==
  /\ Serving
  /\ joins[c].pc \in {"users", "history"}
  /\ joins' = [joins EXCEPT ![c] = IdleJoin]
  /\ inbox' = Deliver(inbox, {c} \cap {d \in Conn : sockets[d].connected},
                      ErrorEvent(joins[c].room, 0))
  /\ UNCHANGED <<db, proc, sockets, rooms, roomPersistence, attached, nJoins, creator,
                 msgs, store, bcast>>
  /\ UNCHANGED fileVars

\* ------------------------------------------------------------------ join
\* The most messages the 'join' handler reads: .limit(50).
HistoryLimit == 50
\* Message.find({ room }).sort({ createdAt: -1 }).limit(50), then .reverse(): the
\* newest HistoryLimit stored messages of the room, by ascending createdAt.
Recent(r) ==
  LET h == History(r)
  IN IF Len(h) <= HistoryLimit THEN h ELSE SubSeq(h, Len(h) - HistoryLimit + 1, Len(h))

MessageHistory(r, hist) ==
  [NoEvent EXCEPT !.ev = "messageHistory", !.room = r, !.messages = hist]
\* io.to(room).emit('userList', users): the User documents of the room, which
\* the model does not keep.
UserList(r) == [NoEvent EXCEPT !.ev = "userList", !.room = r]

\* socket.on('join'), up to its first await (user.save()): the socket is
\* subscribed to the room; rooms, roomPersistence and socket.username are not
\* touched.
Join(c, nickname, room) ==
  /\ Serving
  /\ sockets[c].connected
  /\ joins[c].pc = "idle"
  /\ nJoins < MaxJoins
  /\ nJoins' = nJoins + 1
  /\ sockets' = [sockets EXCEPT ![c].rooms = @ \cup {room}]
  /\ joins' = [joins EXCEPT ![c] = [pc |-> "find", room |-> room, username |-> nickname,
                                    persist |-> FALSE, isCreator |-> FALSE,
                                    flag |-> PersistField(room),
                                    before |-> Before(c, nickname, room)]]
  /\ UNCHANGED <<db, proc, rooms, roomPersistence, attached, creator, msgs, store,
                 bcast, inbox>>
  /\ UNCHANGED fileVars

\* 'join' resumes after user.save() and Message.find(): it sends the stored
\* messages of the room to the joining socket, whatever the flag of the room,
\* and awaits User.find().
JoinFound(c) ==
  /\ StoreOpen
  /\ joins[c].pc = "find"
  /\ joins' = [joins EXCEPT ![c].pc = "list"]
  /\ inbox' = Deliver(inbox, {c} \cap {d \in Conn : sockets[d].connected},
                      MessageHistory(joins[c].room, Recent(joins[c].room)))
  /\ UNCHANGED <<db, proc, sockets, rooms, roomPersistence, attached, nJoins, creator,
                 msgs, store, bcast>>
  /\ UNCHANGED fileVars

\* 'join' resumes after User.find(): userList to the room, the welcome message
\* to the joining socket, `${nickname} has joined the room` to the others.
JoinListed(c) ==
  /\ StoreOpen
  /\ joins[c].pc = "list"
  /\ joins' = [joins EXCEPT ![c] = IdleJoin]
  /\ LET r == joins[c].room
         subs == Subscribers(sockets, r)
         me == {c} \cap {d \in Conn : sockets[d].connected}
         b1 == Deliver(inbox, subs, UserList(r))
         b2 == Deliver(b1, me, SystemMsg(r, "welcome", joins[c].username))
     IN inbox' = Deliver(b2, subs \ {c}, SystemMsg(r, "joined", joins[c].username))
  /\ UNCHANGED <<db, proc, sockets, rooms, roomPersistence, attached, nJoins, creator,
                 msgs, store, bcast>>
  /\ UNCHANGED fileVars

\* ------------------------------------------------------------------ disconnect
\* The rooms entries the disconnect handler visits, in Map order, whose Set has
\* socket.username.
RECURSIVE LeaveEmits(_, _, _, _, _)
LeaveEmits(rs, ss, box, n, i) ==
  IF i > Len(rs) THEN box
  ELSE IF SetHas(rs[i].users, n)
       THEN LET r == rs[i].room
                subs == Subscribers(ss, r)
                b1 == Deliver(box, subs, RoomUsers(r, SetDelete(rs[i].users, n)))
            IN LeaveEmits(rs, ss, Deliver(b1, subs, SystemMsg(r, "left", n)), n, i + 1)
       ELSE LeaveEmits(rs, ss, box, n, i + 1)

\* users.delete(socket.username) in every rooms entry.
RoomsLeave(rs, n) ==
  [i \in 1..Len(rs) |-> [rs[i] EXCEPT !.users = SetDelete(@, n)]]

\* The transport closes connection c: socket.io takes the socket out of its rooms,
\* then socket.on('disconnect') runs (it has no await).
Disconnect(c) ==
  /\ Serving
  /\ sockets[c].connected
  /\ sockets' = [sockets EXCEPT ![c].connected = FALSE, ![c].rooms = {}, ![c].added = {}]
  /\ rooms' = RoomsLeave(rooms, sockets[c].username)
  /\ inbox' = LeaveEmits(rooms, sockets', inbox, sockets[c].username, 1)
  /\ attached' = {t \in attached : t[1] # c}
  /\ UNCHANGED <<db, proc, roomPersistence, joins, nJoins, creator, msgs, store, bcast>>
  /\ UNCHANGED fileVars

\* ------------------------------------------------------------------ message
\* The flag of room r as the last joinRoom of connection c for r left it ("none":
\* c has not joined r).
JoinFlag(c, r) ==
  IF \E t \in attached : t[1] = c /\ t[2] = r
  THEN (CHOOSE t \in attached : t[1] = c /\ t[2] = r)[4]
  ELSE "none"

NumText == Cardinality({i \in 1..Len(msgs) : msgs[i].kind = "text"})
NumFile == Cardinality({i \in 1..Len(msgs) : msgs[i].kind = "file"})

\* The document `new Message({ room, ...messageData })` of message i.
TextDoc(i) ==
  [room |-> msgs[i].room, type |-> "text", text |-> "original",
   fileUrl |-> NullUrl, createdAt |-> i]

\* message.save(): insert document d under id i.
Save(st, i, d) == [k \in DOMAIN st \cup {i} |-> IF k = i THEN d ELSE st[k]]

\* io.to(room).emit('message', ...) of message i.
Broadcast(i, r) ==
  /\ bcast' = Append(bcast, i)
  /\ inbox' = Deliver(inbox, Subscribers(sockets, r), LiveMsg(r, i))

\* socket.on('message'), up to message.save() in a persistent room, to its end
\* otherwise.  text is the length of data.text, which the handler never reads.
Message(c, room, username, text) ==
  /\ Serving
  /\ sockets[c].connected
  /\ NumText < MaxMsgs
  /\ LET i == Len(msgs) + 1
         p == Persistent(room)
     IN /\ msgs' = Append(msgs, [kind |-> "text", room |-> room, sender |-> c,
                                 username |-> username, len |-> text,
                                 flag |-> PersistField(room),
                                 joinFlag |-> JoinFlag(c, room),
                                 subs |-> Subscribers(sockets, room),
                                 pc |-> IF p THEN "save" ELSE "done"])
        /\ IF p THEN UNCHANGED <<bcast, inbox>> ELSE Broadcast(i, room)
  /\ UNCHANGED <<db, proc, store>>
  /\ UNCHANGED chatVars
  /\ UNCHANGED fileVars

\* message.save() of text message i has completed; the handler broadcasts it.
MessageSaved(i) ==
  /\ StoreOpen
  /\ i \in 1..Len(msgs)
  /\ msgs[i].kind = "text"
  /\ msgs[i].pc = "save"
  /\ store' = Save(store, i, TextDoc(i))
  /\ msgs' = [msgs EXCEPT ![i].pc = "done"]
  /\ Broadcast(i, msgs[i].room)
  /\ UNCHANGED <<proc, db>>
  /\ UNCHANGED chatVars
  /\ UNCHANGED fileVars

\* message.save() of text message i has rejected (the store is unreachable or
\* refuses the write): the handler goes to its catch block, which logs and emits
\* 'error' to the sending socket; the io.to(room).emit of line 232 is skipped.
MessageSaveFails(i) ==
  /\ Serving
  /\ i \in 1..Len(msgs)
  /\ msgs[i].kind = "text"
  /\ msgs[i].pc = "save"
  /\ msgs' = [msgs EXCEPT ![i].pc = "failed"]
  /\ inbox' = Deliver(inbox, {msgs[i].sender} \cap {d \in Conn : sockets[d].connected},
                      ErrorEvent(msgs[i].room, i))
  /\ UNCHANGED <<db, proc, store, bcast>>
  /\ UNCHANGED chatVars
  /\ UNCHANGED fileVars

\* ------------------------------------------------------------------ upload
\* The HTTP response of the upload endpoint: none yet, or
\* res.json({ success: true, fileUrl: `/uploads/${file.filename}` }).
NoResponse == [status |-> "pending", fileUrl |-> NullUrl]
UploadOk(f) == [status |-> "success", fileUrl |-> Url(f)]

\* io.to(room).emit('message', { type: 'file', fileUrl, ... }) of file f.
BroadcastFile(f, r) ==
  /\ bcast' = Append(bcast, f)
  /\ inbox' = Deliver(inbox, Subscribers(sockets, r), FileMsg(r, f))

\* The document the upload endpoint stores for file f.
FileDoc(f) ==
  [room |-> msgs[f].room, type |-> "file", text |-> "original",
   fileUrl |-> Url(f), createdAt |-> f]

\* app.post('/upload') with a file of the given size and MIME type: multer,
\* configured with its storage alone (no limits, no fileFilter), has written the
\* file (its generated name is unique: f, the next message id); the handler runs
\* up to message.save() in a persistent room, to its end otherwise.
Upload(room, username, size, mimetype) ==
  /\ Serving
  /\ NumFile < MaxUploads
  /\ LET f == Len(msgs) + 1
         p == Persistent(room)
     IN /\ disk' = disk \cup {f}
        /\ msgs' = Append(msgs, [kind |-> "file", room |-> room, sender |-> "http",
                                 username |-> username, size |-> size,
                                 mimetype |-> mimetype, flag |-> PersistField(room),
                                 subs |-> Subscribers(sockets, room),
                                 pc |-> IF p THEN "save" ELSE "done",
                                 res |-> IF p THEN NoResponse ELSE UploadOk(f)])
        /\ IF p THEN UNCHANGED <<bcast, inbox>> ELSE BroadcastFile(f, room)
  /\ UNCHANGED <<db, locked, proc, store, aged, uploadedFiles, sweep, sdFiles, expired>>
  /\ UNCHANGED chatVars

\* message.save() of file message f has completed; the handler broadcasts it and
\* answers the request.
UploadSaved(f) ==
  /\ StoreOpen
  /\ f \in 1..Len(msgs)
  /\ msgs[f].kind = "file"
  /\ msgs[f].pc = "save"
  /\ store' = Save(store, f, FileDoc(f))
  /\ msgs' = [msgs EXCEPT ![f].pc = "done", ![f].res = UploadOk(f)]
  /\ BroadcastFile(f, msgs[f].room)
  /\ UNCHANGED <<proc, db>>
  /\ UNCHANGED chatVars
  /\ UNCHANGED fileVars

\* res.status(500).json({ success: false, error: 'Failed to upload file' }).
UploadFailed == [status |-> "500", fileUrl |-> NullUrl]
\* res.status(400).json({ success: false, error: 'No file uploaded' }).
UploadRejected == [status |-> "400", fileUrl |-> NullUrl]

\* The record of an upload request that carried no file, answered with res.
NoFileRequest(room, username, res) ==
  [kind |-> "nofile", room |-> room, sender |-> "http", username |-> username,
   flag |-> PersistField(room), subs |-> Subscribers(sockets, room),
   pc |-> "done", res |-> res]

\* Mutant: the handler without its `if (!file)` test: reading file.originalname
\* throws, the catch answers 500.
UploadNoFileUnchecked(room, username) ==
  /\ Serving
  /\ msgs' = Append(msgs, NoFileRequest(room, username, UploadFailed))
  /\ UNCHANGED <<proc, db, store, bcast, inbox>>
  /\ UNCHANGED chatVars
  /\ UNCHANGED fileVars
\* app.post('/upload') without a file field: multer leaves req.file undefined and
\* writes nothing, the handler answers 400 and returns.
UploadNoFile(room, username) ==
  /\ Serving
  /\ msgs' = Append(msgs, NoFileRequest(room, username, UploadRejected))
  /\ UNCHANGED <<proc, db, store, bcast, inbox>>
  /\ UNCHANGED chatVars
  /\ UNCHANGED fileVars

\* message.save() of file message f has rejected: the catch of lines 344-347
\* logs and answers 500; nothing is broadcast.
UploadSaveFails(f) ==
  /\ Serving
  /\ f \in 1..Len(msgs)
  /\ msgs[f].kind = "file"
  /\ msgs[f].pc = "save"
  /\ msgs' = [msgs EXCEPT ![f].pc = "failed", ![f].res = UploadFailed]
  /\ UNCHANGED <<proc, db, store, bcast, inbox>>
  /\ UNCHANGED chatVars
  /\ UNCHANGED fileVars

\* ------------------------------------------------------------------ expiry
\* Time passes: the age of file f reaches FILE_EXPIRY_TIME.  The 30 minutes are
\* far longer than a request, so the upload handler of f has returned by then.
Age(f) ==
  /\ Serving
  /\ f \in disk \ aged
  /\ IF f = LegacyFile THEN TRUE ELSE msgs[f].pc = "done"
  /\ aged' = aged \cup {f}
  /\ UNCHANGED <<db, locked, proc, msgs, store, bcast, inbox, disk, uploadedFiles, sweep,
                 sdFiles, expired>>
  /\ UNCHANGED chatVars

\* The file system starts, or stops, refusing to unlink file f (the file is in
\* use, or the directory has lost its write permission).
Lock(f) ==
  /\ Serving
  /\ f \in disk \ locked
  /\ locked' = locked \cup {f}
  /\ UNCHANGED <<proc, db, msgs, store, bcast, inbox, disk, aged, uploadedFiles, sweep,
                 sdFiles, expired>>
  /\ UNCHANGED chatVars
Unlock(f) ==
  /\ Serving
  /\ f \in locked
  /\ locked' = locked \ {f}
  /\ UNCHANGED <<proc, db, msgs, store, bcast, inbox, disk, aged, uploadedFiles, sweep,
                 sdFiles, expired>>
  /\ UNCHANGED chatVars

\* fs.readdirSync(uploadsDir): the names in the directory, in ascending order.
RECURSIVE ReadDir(_)
ReadDir(d) ==
  IF d = {} THEN <<>>
  ELSE LET f == CHOOSE x \in d : \A y \in d : x <= y
       IN <<f>> \o ReadDir(d \ {f})

\* Mutant: the existsSync test inverted.
UnlinkInverted(d, f) == IF f \notin d THEN d \ {f} ELSE d
\* deleteFile, before its await: unlink the file when it exists.
Unlink(d, f) == IF f \in d THEN d \ {f} ELSE d

\* Mutant: the $set without fileUrl: null.
RedactKeepUrl(st, url) ==
  [i \in DOMAIN st |->
     IF st[i].fileUrl = url THEN [st[i] EXCEPT !.text = "File expired"] ELSE st[i]]
\* Message.updateMany({ fileUrl }, { $set: { text: <expiry notice>, fileUrl: null } }).
Redact(st, url) ==
  [i \in DOMAIN st |->
     IF st[i].fileUrl = url
     THEN [st[i] EXCEPT !.text = "File expired", !.fileUrl = NullUrl]
     ELSE st[i]]

\* deleteFile(f, Url(f)), after its await: updateMany has redacted the messages
\* of the file, uploadedFiles.delete(filename) runs.
DeleteFileDone(f) ==
  /\ store' = Redact(store, Url(f))
  /\ uploadedFiles' = uploadedFiles \ {f}

\* Mutant: the age test of line 77 inverted.
RECURSIVE ScanYoung(_, _, _, _)
ScanYoung(d, files, old, i) ==
  IF i > Len(files) THEN [status |-> "done", idx |-> i]
  ELSE IF files[i] \notin d THEN [status |-> "threw", idx |-> i]
  ELSE IF files[i] \notin old THEN [status |-> "delete", idx |-> i]
  ELSE ScanYoung(d, files, old, i + 1)
\* The for loop of cleanupExpiredFiles from position i on, up to the next await:
\* statSync throws on a file that is gone (the sweep ends in its catch), a file
\* younger than FILE_EXPIRY_TIME at the start of the sweep is passed over, an
\* older one is handed to deleteFile.
RECURSIVE Scan(_, _, _, _)
Scan(d, files, old, i) ==
  IF i > Len(files) THEN [status |-> "done", idx |-> i]
  ELSE IF files[i] \notin d THEN [status |-> "threw", idx |-> i]
  ELSE IF files[i] \in old THEN [status |-> "delete", idx |-> i]
  ELSE Scan(d, files, old, i + 1)

\* Mutant: deleteFile without its try/catch: the exception of unlinkSync reaches
\* the catch of cleanupExpiredFiles, which ends the sweep.
UnlinkThrowsUncaught(s, files, old, k) == IdleSweep
\* unlinkSync throws on the file at position k (the file is locked): the catch of
\* deleteFile logs, updateMany is not reached, deleteFile returns and the sweep
\* awaits its promise; failed keeps the files of this sweep whose unlink threw.
UnlinkThrows(s, files, old, k) ==
  [pc |-> "await", files |-> files, old |-> old, idx |-> k, update |-> FALSE,
   failed |-> sweep[s].failed \cup {files[k]}]

\* A sweep in slot s goes on from position i: it either unlinks the next expired
\* file and awaits its updateMany (or, when Message is not yet defined, the
\* promise deleteFile returned after catching the ReferenceError), or ends.
SweepFrom(s, d, files, old, i, defined) ==
  LET r == Scan(d, files, old, i)
  IN IF r.status = "delete"
     THEN IF files[r.idx] \in locked
          THEN /\ disk' = d
               /\ sweep' = [sweep EXCEPT ![s] = UnlinkThrows(s, files, old, r.idx)]
          ELSE /\ disk' = Unlink(d, files[r.idx])
               /\ sweep' = [sweep EXCEPT ![s] =
                              [pc |-> "await", files |-> files, old |-> old,
                               idx |-> r.idx, update |-> defined,
                               failed |-> sweep[s].failed]]
     ELSE /\ disk' = d
          /\ sweep' = [sweep EXCEPT ![s] = IdleSweep]

\* server.js runs from its first line to server.listen(): the cleanupExpiredFiles()
\* call of line 94 runs, up to its first await, before line 113 defines Message.
Startup ==
  /\ proc = "loading"
  /\ proc' = "running"
  /\ db' = "connected"
  /\ SweepFrom("s1", disk, ReadDir(disk), aged, 1, FALSE)
  /\ UNCHANGED <<locked, msgs, store, bcast, inbox, aged, uploadedFiles, sdFiles, expired>>
  /\ UNCHANGED chatVars

\* The same run of server.js when mongoose.connect() rejects: the catch of line
\* 37 logs the error and nothing else; server.listen() is reached all the same.
StartupStoreDown ==
  /\ proc = "loading"
  /\ proc' = "running"
  /\ db' = "failed"
  /\ SweepFrom("s1", disk, ReadDir(disk), aged, 1, FALSE)
  /\ UNCHANGED <<locked, msgs, store, bcast, inbox, aged, uploadedFiles, sdFiles, expired>>
  /\ UNCHANGED chatVars

\* setInterval fires cleanupExpiredFiles in a free slot.
SweepStart(s) ==
  /\ Serving
  /\ sweep[s].pc = "idle"
  /\ SweepFrom(s, disk, ReadDir(disk), aged, 1, TRUE)
  /\ UNCHANGED <<db, locked, proc, msgs, store, bcast, inbox, aged, uploadedFiles, sdFiles, expired>>
  /\ UNCHANGED chatVars

\* The sweep of slot s resumes: deleteFile finishes for the file it unlinked
\* (updateMany, then uploadedFiles.delete) and the loop goes on.
SweepResume(s) ==
  /\ StoreOpen
  /\ sweep[s].pc = "await"
  /\ LET w == sweep[s]
         f == w.files[w.idx]
     IN /\ IF w.update
           THEN DeleteFileDone(f)
           ELSE UNCHANGED <<store, uploadedFiles>>
        /\ expired' = expired \cup {f}
        /\ SweepFrom(s, disk, w.files, w.old, w.idx + 1, TRUE)
  /\ UNCHANGED <<db, locked, proc, msgs, bcast, inbox, aged, sdFiles>>
  /\ UNCHANGED chatVars

\* The sweep of slot s resumes after updateMany has rejected: deleteFile's catch
\* logs, uploadedFiles.delete is skipped, deleteFile returns and the loop goes on.
SweepResumeFails(s) ==
  /\ Serving
  /\ sweep[s].pc = "await"
  /\ sweep[s].update
  /\ LET w == sweep[s]
         f == w.files[w.idx]
     IN /\ expired' = expired \cup {f}
        /\ SweepFrom(s, disk, w.files, w.old, w.idx + 1, TRUE)
  /\ UNCHANGED <<db, locked, proc, msgs, store, bcast, inbox, aged, uploadedFiles, sdFiles>>
  /\ UNCHANGED chatVars

\* ------------------------------------------------------------------ SIGINT
\* Message.updateMany({ type: 'file', fileUrl: { $ne: null } },
\*                    { $set: { text: <shutdown notice>, fileUrl: null } }).
RedactAll(st) ==
  [i \in DOMAIN st |->
     IF st[i].type = "file" /\ st[i].fileUrl # NullUrl
     THEN [st[i] EXCEPT !.text = "File removed", !.fileUrl = NullUrl]
     ELSE st[i]]

\* The unlink loop of the SIGINT handler: unlinkSync throws on a file that is
\* gone or locked, which ends the loop in the handler's catch.
RECURSIVE UnlinkAll(_, _, _)
UnlinkAll(d, files, i) ==
  IF i > Len(files) \/ files[i] \notin d \/ files[i] \in locked THEN d
  ELSE UnlinkAll(d \ {files[i]}, files, i + 1)

\* process.on('SIGINT'), up to its await of updateMany: the timers of
\* uploadedFiles are cleared (the Map keeps its entries), the directory is listed.
Sigint ==
  /\ proc = "running"
  /\ proc' = "shutting"
  /\ sdFiles' = ReadDir(disk)
  /\ UNCHANGED <<db, locked, msgs, store, bcast, inbox, disk, aged, uploadedFiles, sweep, expired>>
  /\ UNCHANGED chatVars

\* The SIGINT handler resumes after updateMany, unlinks the listed files and
\* calls mongoose.connection.close().
ShutdownCleanup ==
  /\ proc = "shutting"
  /\ proc' = "closing"
  /\ store' = RedactAll(store)
  /\ disk' = UnlinkAll(disk, sdFiles, 1)
  /\ UNCHANGED <<db, locked, msgs, bcast, inbox, aged, uploadedFiles, sweep, sdFiles, expired>>
  /\ UNCHANGED chatVars

\* Mutant: the cleanup without its try/catch: the rejection ends the handler.
ShutdownCleanupUncaught ==
  /\ proc = "shutting"
  /\ proc' = "crashed"
  /\ UNCHANGED <<db, msgs, store, bcast, inbox>>
  /\ UNCHANGED chatVars
  /\ UNCHANGED fileVars
\* The SIGINT handler resumes after updateMany has rejected: the catch of line
\* 387 logs, the unlink loop of lines 380-383 is skipped, close() is called.
ShutdownCleanupFails ==
  /\ proc = "shutting"
  /\ proc' = "closing"
  /\ UNCHANGED <<db, msgs, store, bcast, inbox>>
  /\ UNCHANGED chatVars
  /\ UNCHANGED fileVars

\* The SIGINT handler resumes after close() has resolved, or rejected into the
\* catch of line 395, and calls process.exit(0).
Exit ==
  /\ proc = "closing"
  /\ proc' = "exited"
  /\ UNCHANGED <<db, msgs, store, bcast, inbox>>
  /\ UNCHANGED chatVars
  /\ UNCHANGED fileVars

\* ------------------------------------------------------------------ specifications
\* Messaging in one room: joins, messages, disconnects.
Next ==
  \/ Startup
  \/ \E c \in Conn, p \in BOOLEAN, cr \in BOOLEAN : JoinRoom(c, "alice", "r1", p, cr)
  \/ \E c \in Conn : JoinUsersDone(c)
  \/ \E c \in Conn : JoinHistoryDone(c)
  \/ \E c \in Conn : Disconnect(c)
  \/ \E c \in Conn : Message(c, "r1", sockets[c].username, MaxTextLen)
  \/ \E i \in MsgId : MessageSaved(i)
Spec == Init /\ [][Next]_vars

\* Membership: joins and disconnects over all rooms and nicknames.
NextMembers ==
  \/ Startup
  \/ \E c \in Conn, n \in Nick, r \in Room, p \in BOOLEAN, cr \in BOOLEAN :
        JoinRoom(c, n, r, p, cr)
  \/ \E c \in Conn : JoinUsersDone(c)
  \/ \E c \in Conn : JoinHistoryDone(c)
  \/ \E c \in Conn : Disconnect(c)
SpecMembers == Init /\ [][NextMembers]_vars

\* Files: uploads, expiry sweeps and shutdown, started on what a killed run left.
NextFiles ==
  \/ Startup
  \/ JoinRoom("c1", "alice", "r1", TRUE, TRUE)
  \/ JoinUsersDone("c1")
  \/ JoinHistoryDone("c1")
  \/ Upload("r1", "alice", MaxFileSize, "image/png")
  \/ \E f \in MsgId : UploadSaved(f)
  \/ \E f \in {LegacyFile} \cup MsgId : Age(f)
  \/ SweepStart("s1")
  \/ SweepResume("s1")
  \/ Sigint
  \/ ShutdownCleanup
  \/ Exit
SpecFiles == InitFiles /\ [][NextFiles]_vars

\* Persistence: one connection that sets and resets the flag of its room, its
\* messages and uploads.
NextPersist ==
  \/ Startup
  \/ \E p \in BOOLEAN, cr \in BOOLEAN : JoinRoom("c1", "alice", "r1", p, cr)
  \/ JoinUsersDone("c1")
  \/ JoinHistoryDone("c1")
  \/ (Len(msgs) < MaxPersistMsgs /\ Message("c1", "r1", "alice", MaxTextLen))
  \/ \E i \in MsgId : MessageSaved(i)
  \/ (Len(msgs) < MaxPersistMsgs /\ Upload("r1", "alice", MaxFileSize, "image/png"))
  \/ \E f \in MsgId : UploadSaved(f)
SpecPersist == Init /\ [][NextPersist]_vars

\* Store failures: messaging in one persistent or non-persistent room whose
\* writes to the Message collection may be rejected.
NextFaults ==
  \/ Startup
  \/ \E c \in Conn, p \in BOOLEAN : JoinRoom(c, "alice", "r1", p, TRUE)
  \/ \E c \in Conn : JoinUsersDone(c)
  \/ \E c \in Conn : JoinHistoryDone(c)
  \/ \E c \in Conn : Message(c, "r1", sockets[c].username, MaxTextLen)
  \/ \E i \in MsgId : MessageSaved(i)
  \/ \E i \in MsgId : MessageSaveFails(i)
SpecFaults == Init /\ [][NextFaults]_vars

\* Input validation: one connection whose joinRoom, 'message' and upload requests
\* carry empty names, texts of any length, files of any size and type.
NextInput ==
  \/ Startup
  \/ \E n \in {Empty, "alice"}, r \in {Empty, "r1"}, p \in BOOLEAN :
        JoinRoom("c1", n, r, p, TRUE)
  \/ JoinUsersDone("c1")
  \/ JoinHistoryDone("c1")
  \/ \E t \in TextLens : (Len(msgs) < MaxInputMsgs /\ Message("c1", "r1", "alice", t))
  \/ \E i \in MsgId : MessageSaved(i)
  \/ \E z \in FileSizes, m \in Mimes :
        (Len(msgs) < MaxInputMsgs /\ Upload("r1", "alice", z, m))
  \/ \E f \in MsgId : UploadSaved(f)
SpecInput == Init /\ [][NextInput]_vars

\* Upload requests with and without a file, to a room whose flag is set and reset.
NextUpload ==
  \/ Startup
  \/ \E p \in BOOLEAN : JoinRoom("c1", "alice", "r1", p, TRUE)
  \/ JoinUsersDone("c1")
  \/ JoinHistoryDone("c1")
  \/ (Len(msgs) < MaxInputMsgs /\ Upload("r1", "alice", MaxFileSize, "image/png"))
  \/ \E f \in MsgId : UploadSaved(f)
  \/ (Len(msgs) < MaxInputMsgs /\ UploadNoFile("r1", "alice"))
SpecUpload == Init /\ [][NextUpload]_vars

\* Files with a store that may reject the redacting updates of the sweep and of
\* the shutdown cleanup.
NextFileFaults ==
  \/ Startup
  \/ (nJoins = 0 /\ JoinRoom("c1", "alice", "r1", TRUE, TRUE))
  \/ JoinUsersDone("c1")
  \/ JoinHistoryDone("c1")
  \/ (NumFile < MaxLiveUploads /\ Upload("r1", "alice", MaxFileSize, "image/png"))
  \/ \E f \in MsgId : UploadSaved(f)
  \/ \E f \in {LegacyFile} \cup MsgId : Age(f)
  \/ SweepStart("s1")
  \/ SweepResume("s1")
  \/ SweepResumeFails("s1")
  \/ Sigint
  \/ ShutdownCleanup
  \/ ShutdownCleanupFails
  \/ Exit
SpecFileFaults == InitFiles /\ [][NextFileFaults]_vars

\* The same, with the scheduling the runtime gives the SIGINT handler: the
\* promise of updateMany settles, one way or the other, and so does close().
FairShutdown ==
  /\ WF_vars(ShutdownCleanup \/ ShutdownCleanupFails)
  /\ WF_vars(Exit)
SpecShutdownLive == InitFiles /\ [][NextFileFaults]_vars /\ FairShutdown

\* Startup with a store that may be unreachable, and the requests served after.
NextStartup ==
  \/ Startup
  \/ StartupStoreDown
  \/ \E c \in Conn, p \in BOOLEAN : JoinRoom(c, "alice", "r1", p, TRUE)
  \/ \E c \in Conn : JoinUsersDone(c)
  \/ \E c \in Conn : JoinHistoryDone(c)
  \/ \E c \in Conn : JoinFails(c)
  \/ \E c \in Conn : (Len(msgs) < MaxInputMsgs /\ Message(c, "r1", "alice", MaxTextLen))
  \/ \E i \in MsgId : MessageSaved(i)
  \/ \E i \in MsgId : MessageSaveFails(i)
  \/ (Len(msgs) < MaxInputMsgs /\ Upload("r1", "alice", MaxFileSize, "image/png"))
  \/ \E f \in MsgId : UploadSaved(f)
  \/ \E f \in MsgId : UploadSaveFails(f)
SpecStartup == Init /\ [][NextStartup]_vars

\* Membership with joinRoom payloads that may lack the username field
\* (username is then undefined, as socket.username is before any joinRoom).
NextAnon ==
  \/ Startup
  \/ \E c \in Conn, n \in {NoNick, "alice"}, p \in BOOLEAN :
        JoinRoom(c, n, "r1", p, TRUE)
  \/ \E c \in Conn : JoinUsersDone(c)
  \/ \E c \in Conn : JoinHistoryDone(c)
  \/ \E c \in Conn : Disconnect(c)
SpecAnon == Init /\ [][NextAnon]_vars

\* Sweeps over files whose unlink may fail.
NextLocks ==
  \/ Startup
  \/ (nJoins = 0 /\ JoinRoom("c1", "alice", "r1", TRUE, TRUE))
  \/ JoinUsersDone("c1")
  \/ JoinHistoryDone("c1")
  \/ (NumFile < MaxLiveUploads /\ Upload("r1", "alice", MaxFileSize, "image/png"))
  \/ \E f \in MsgId : UploadSaved(f)
  \/ \E f \in {LegacyFile} \cup MsgId : Age(f)
  \/ \E f \in {LegacyFile} \cup MsgId : Lock(f)
  \/ \E f \in {LegacyFile} \cup MsgId : Unlock(f)
  \/ SweepStart("s1")
  \/ SweepResume("s1")
SpecLocks == InitFiles /\ [][NextLocks]_vars

\* Both join events: one connection joins by joinRoom and writes, the other
\* joins by 'join'; the store may hold a message of an earlier run.
NextJoin ==
  \/ Startup
  \/ \E p \in BOOLEAN, cr \in BOOLEAN : JoinRoom("c1", "alice", "r1", p, cr)
  \/ JoinUsersDone("c1")
  \/ JoinHistoryDone("c1")
  \/ Join("c2", "bob", "r1")
  \/ JoinFound("c2")
  \/ JoinListed("c2")
  \/ Message("c1", "r1", "alice", MaxTextLen)
  \/ \E i \in MsgId : MessageSaved(i)
SpecJoin == InitFiles /\ [][NextJoin]_vars

\* deleteFile driven directly, as a timer callback or a second sweep would call
\* it: any filename, any number of times, calls overlapping.  The files, their
\* stored messages and the tracked names are drawn from all combinations.
ExpireFiles == {0, 1}
ExpireDoc(f) ==
  [room |-> "r1", type |-> "file", text |-> "original", fileUrl |-> Url(f),
   createdAt |-> f]
InitExpire ==
  /\ InitRunning
  /\ disk \in SUBSET ExpireFiles
  /\ aged = disk
  /\ \E d \in SUBSET ExpireFiles : store = [f \in d |-> ExpireDoc(f)]
  /\ uploadedFiles \in SUBSET disk

\* deleteFile(f, Url(f)) is called and runs up to its await.
ExpireCall(s, f) ==
  /\ Serving
  /\ sweep[s].pc = "idle"
  /\ disk' = Unlink(disk, f)
  /\ sweep' = [sweep EXCEPT ![s] = [pc |-> "call", files |-> <<f>>, old |-> {f},
                                    idx |-> 1, update |-> TRUE, failed |-> {}]]
  /\ UNCHANGED <<db, locked, proc, msgs, store, bcast, inbox, aged, uploadedFiles, sdFiles, expired>>
  /\ UNCHANGED chatVars

\* The deleteFile call of slot s resumes after updateMany and returns.
ExpireReturn(s) ==
  /\ StoreOpen
  /\ sweep[s].pc = "call"
  /\ DeleteFileDone(sweep[s].files[1])
  /\ expired' = expired \cup {sweep[s].files[1]}
  /\ sweep' = [sweep EXCEPT ![s] = IdleSweep]
  /\ UNCHANGED <<db, locked, proc, msgs, bcast, inbox, disk, aged, sdFiles>>
  /\ UNCHANGED chatVars

NextExpire ==
  \/ \E s \in SweepId, f \in ExpireFiles : ExpireCall(s, f)
  \/ \E s \in SweepId : ExpireReturn(s)
SpecExpire == InitExpire /\ [][NextExpire]_vars

\* Files, with the scheduling the runtime gives: time passes, the interval timer
\* fires, store operations and close() return.
FairFiles ==
  /\ WF_vars(Startup)
  /\ WF_vars(SweepStart("s1"))
  /\ WF_vars(SweepResume("s1"))
  /\ WF_vars(Exit)
  /\ \A f \in {LegacyFile} \cup MsgId : WF_vars(Age(f)) /\ WF_vars(UploadSaved(f))
NextFilesLive ==
  \/ Startup
  \/ (nJoins = 0 /\ JoinRoom("c1", "alice", "r1", TRUE, TRUE))
  \/ JoinUsersDone("c1")
  \/ JoinHistoryDone("c1")
  \/ (NumFile < MaxLiveUploads /\ Upload("r1", "alice", MaxFileSize, "image/png"))
  \/ \E f \in MsgId : UploadSaved(f)
  \/ \E f \in {LegacyFile} \cup MsgId : Age(f)
  \/ SweepStart("s1")
  \/ SweepResume("s1")
  \/ Sigint
  \/ ShutdownCleanup
  \/ Exit
SpecFilesLive == InitFiles /\ [][NextFilesLive]_vars /\ FairFiles

\* ------------------------------------------------------------------ claims
Count(s, x) == Cardinality({k \in 1..Len(s) : s[k] = x})
\* Position of the live delivery of message i in the events of connection c (0: none).
LivePos(c, i) ==
  IF \E k \in 1..Len(inbox[c]) : inbox[c][k].ev = "message" /\ inbox[c][k].id = i
  THEN CHOOSE k \in 1..Len(inbox[c]) : inbox[c][k].ev = "message" /\ inbox[c][k].id = i
  ELSE 0

\* C1: the users list of every roomData has one entry per connection that joined
\* the room and has not disconnected: for each nickname, as many entries as
\* attached connections that joined under it.
C1_UsersMatchConnections ==
  \A c \in Conn : \A k \in 1..Len(inbox[c]) :
    LET e == inbox[c][k]
    IN e.ev = "roomData" =>
         \A n \in Nick : Count(e.users, n) = Cardinality({t \in e.att : t[3] = n})

\* C2: when one connection has submitted m1 and then m2 to a persistent room and
\* both handlers have finished, every connection subscribed when m1 was submitted
\* and still connected has received both, m1 before m2.
C2_SubmissionOrder ==
  \A i \in 1..Len(msgs) : \A j \in 1..Len(msgs) :
    ( /\ i < j
      /\ msgs[i].kind = "text" /\ msgs[j].kind = "text"
      /\ msgs[i].sender = msgs[j].sender
      /\ msgs[i].room = msgs[j].room
      /\ msgs[i].flag = "true" /\ msgs[j].flag = "true"
      /\ msgs[i].pc = "done" /\ msgs[j].pc = "done" )
    => \A d \in msgs[i].subs :
         sockets[d].connected =>
           /\ LivePos(d, i) > 0
           /\ LivePos(d, j) > 0
           /\ LivePos(d, i) < LivePos(d, j)

\* C3: a live message is delivered only to connections that were subscribed to
\* its room when it was submitted, never to one whose joinRoom came later.
C3_NoBackDelivery ==
  \A c \in Conn : \A k \in 1..Len(inbox[c]) :
    inbox[c][k].ev = "message" => c \in msgs[inbox[c][k].id].subs

\* C4: a text or file message submitted while the flag of its room is not true is
\* broadcast by its handler at once, to every connection then subscribed, and is
\* never in the store, in a history read or in the messages of a roomData.
C4_NonPersistentNotStored ==
  \A i \in 1..Len(msgs) :
    msgs[i].flag # "true" =>
      /\ msgs[i].pc = "done"
      /\ Count(bcast, i) = 1
      /\ \A c \in msgs[i].subs : LivePos(c, i) > 0
      /\ i \notin DOMAIN store
      /\ \A r \in Room : ~SetHas(History(r), i)
      /\ \A c \in Conn : \A k \in 1..Len(inbox[c]) : ~SetHas(inbox[c][k].messages, i)
\* C4 witness: a text and a file message went out unstored, the room then became
\* persistent and a later join read a history that holds another message.
C4_Witness ==
  /\ \E i \in 1..Len(msgs) : msgs[i].flag # "true" /\ msgs[i].kind = "text"
  /\ \E i \in 1..Len(msgs) : msgs[i].flag # "true" /\ msgs[i].kind = "file"
  /\ \E c \in Conn : \E k \in 1..Len(inbox[c]) :
       inbox[c][k].ev = "roomData" /\ Len(inbox[c][k].messages) > 0

\* C5: in a persistent room the history read lists the messages submitted under
\* the flag and broadcast, in the order in which they were broadcast.
C5_HistoryInBroadcastOrder ==
  \A r \in Room :
    Persistent(r) =>
      SelectSeq(History(r), LAMBDA i : i \in MsgId /\ msgs[i].flag = "true")
        = SelectSeq(bcast, LAMBDA i : msgs[i].room = r /\ msgs[i].flag = "true")

\* C6: once the expiry of file f is over (the deleteFile call made for it has
\* returned), the stored message of f has a null fileUrl and the expiry notice,
\* and no stored message points at f.
C6_ExpiryRedacts ==
  \A f \in expired :
    /\ \A i \in DOMAIN store : store[i].fileUrl # Url(f)
    /\ f \in DOMAIN store =>
         store[f].fileUrl = NullUrl /\ store[f].text \in {"File expired", "File removed"}

\* C7: while the process runs, every file in uploads/ is eventually removed.
C7_EventuallyRemoved ==
  \A f \in {LegacyFile} \cup MsgId :
    (f \in disk) ~> (f \notin disk \/ proc = "exited")
\* C7 witness: an uploaded file has been removed by a sweep, not by shutdown.
C7_Witness ==
  \E f \in MsgId : f \in expired /\ f \notin disk /\ proc = "running"

\* C8: a step of a deleteFile call made for a file whose expiry is already over
\* leaves the directory, the stored messages and the tracking table as they are;
\* and a tracking entry goes only when its file is off the disk and no stored
\* message points at it.
C8_SecondExpireNoOp ==
  [][ /\ \A s \in SweepId :
           LET w == IF sweep[s].pc = "call" THEN sweep[s] ELSE sweep'[s]
           IN (sweep'[s] # sweep[s] /\ w.pc = "call" /\ w.files[1] \in expired)
                => UNCHANGED <<disk, store, uploadedFiles>>
      /\ \A f \in uploadedFiles \ uploadedFiles' :
           /\ f \notin disk'
           /\ \A i \in DOMAIN store' : store'[i].fileUrl # Url(f) ]_vars
\* C8 witness: a second call for an expired file is in flight while another file
\* is still on disk, tracked, with its message unredacted.
C8_Witness ==
  \E s \in SweepId : \E g \in ExpireFiles :
    /\ sweep[s].pc = "call"
    /\ sweep[s].files[1] \in expired
    /\ sweep[s].files[1] \in DOMAIN store
    /\ g # sweep[s].files[1]
    /\ g \in disk /\ g \in uploadedFiles
    /\ g \in DOMAIN store /\ store[g].fileUrl = Url(g)

\* C9: every file uploaded in this run that is on disk has its entry, with its
\* pending timer, in uploadedFiles.
C9_LiveFilesTracked ==
  \A f \in disk \cap MsgId : f \in uploadedFiles

\* C10: at process exit uploads/ is empty and no stored message has a fileUrl.
C10_ExitClean ==
  proc = "exited" =>
    /\ disk = {}
    /\ \A i \in DOMAIN store : store[i].fileUrl = NullUrl

\* C11: in a persistent room a message whose handler has ended, its save having
\* succeeded or failed, has been broadcast to the room once, and no connection
\* has been sent an 'error' for it.
C11_SaveFailureStillBroadcast ==
  \A i \in 1..Len(msgs) :
    (msgs[i].flag = "true" /\ msgs[i].pc \in {"done", "failed"}) =>
      /\ Count(bcast, i) = 1
      /\ \A c \in Conn : \A k \in 1..Len(inbox[c]) :
           ~(inbox[c][k].ev = "error" /\ inbox[c][k].id = i)

\* C12: a disconnect of connection c leaves every room that c had not joined as
\* it is: the member set of such a room does not change and none of its
\* connections is sent a membership update or a 'has left the room' message.
C12_DisconnectFrame ==
  [][ \A c \in Conn :
        (sockets[c].connected /\ ~sockets'[c].connected) =>
          \A r \in Room \ sockets[c].rooms :
            /\ \A i \in 1..Len(rooms) : rooms[i].room = r => rooms'[i] = rooms[i]
            /\ \A d \in Conn : \A k \in (Len(inbox[d]) + 1)..Len(inbox'[d]) :
                 inbox'[d][k].room # r ]_vars

\* C13: a connection is subscribed to at most one room and has joined at most
\* one room at any time.
C13_AtMostOneRoom ==
  \A c \in Conn :
    /\ Cardinality(sockets[c].rooms) <= 1
    /\ Cardinality({t[2] : t \in {u \in attached : u[1] = c}}) <= 1

\* C14: once a room has its persistence entry, made by the joinRoom of its
\* creator, a step changes the flag only when it is a joinRoom of that connection.
C14_FlagOnlyByCreator ==
  [][ \A r \in DOMAIN roomPersistence :
        roomPersistence'[r] # roomPersistence[r]
          => /\ joins[creator[r]].pc = "idle"
             /\ joins'[creator[r]].pc = "users"
             /\ joins'[creator[r]].room = r ]_vars

\* C15: a joinRoom event for a room code r that has no record (no member set, no
\* persistence entry), from a caller not flagged as creator (the event makes no
\* persistence entry for r), creates no room: after it r has no member set and
\* no connection is subscribed to r.
C15_NoRoomWithoutCreator ==
  [][ nJoins' # nJoins =>
        \A r \in Room :
          ( /\ ~RoomsHas(rooms, r)
            /\ r \notin DOMAIN roomPersistence
            /\ r \notin DOMAIN roomPersistence' )
          => /\ ~RoomsHas(rooms', r)
             /\ \A c \in Conn : r \notin sockets'[c].rooms ]_vars

\* C16: no joinRoom with an empty nickname or room code has any effect: no
\* connection is subscribed to the empty room code, no member set is kept for
\* it, no member set holds the empty nickname and no event names either.
C16_EmptyInputRejected ==
  /\ \A c \in Conn : Empty \notin sockets[c].rooms
  /\ ~RoomsHas(rooms, Empty)
  /\ \A i \in 1..Len(rooms) : ~SetHas(rooms[i].users, Empty)
  /\ \A c \in Conn : \A k \in 1..Len(inbox[c]) :
       inbox[c][k].room # Empty /\ inbox[c][k].who # Empty /\ ~SetHas(inbox[c][k].users, Empty)

\* C17: a message whose text is longer than 1000 characters is neither stored
\* nor broadcast.
C17_LongTextRejected ==
  \A i \in 1..Len(msgs) :
    (msgs[i].kind = "text" /\ msgs[i].len > MaxTextLen) =>
      /\ i \notin DOMAIN store
      /\ Count(bcast, i) = 0
      /\ \A c \in Conn : LivePos(c, i) = 0

\* C18: an upload larger than 5 MiB or of a type outside the allowed set leaves
\* no file in uploads/, no stored message and no broadcast.
C18_BadUploadRejected ==
  \A f \in 1..Len(msgs) :
    ( /\ msgs[f].kind = "file"
      /\ (msgs[f].size > MaxFileSize \/ msgs[f].mimetype \notin AllowedTypes) )
    => /\ f \notin disk
       /\ f \notin DOMAIN store
       /\ Count(bcast, f) = 0

\* C19: an upload is in the store, as a file message with its fileUrl, exactly
\* when its handler has passed the save it makes under a true flag; once the
\* handler has ended the file message has been broadcast once, to the room of
\* the upload, and every copy delivered carries the fileUrl of the HTTP response.
C19_UploadStoredIffPersistent ==
  \A f \in 1..Len(msgs) :
    msgs[f].kind = "file" =>
      /\ f \in DOMAIN store <=> (msgs[f].flag = "true" /\ msgs[f].pc = "done")
      /\ f \in DOMAIN store => (store[f].type = "file" /\ store[f].fileUrl = Url(f))
      /\ Count(bcast, f) = (IF msgs[f].pc = "done" THEN 1 ELSE 0)
      /\ msgs[f].pc = "done" =>
           /\ msgs[f].res.status = "success"
           /\ msgs[f].res.fileUrl # NullUrl
           /\ msgs[f].flag # "true" => \A c \in msgs[f].subs : LivePos(c, f) > 0
      /\ \A c \in Conn : \A k \in 1..Len(inbox[c]) :
           (inbox[c][k].ev = "message" /\ inbox[c][k].id = f) =>
             /\ inbox[c][k].room = msgs[f].room
             /\ inbox[c][k].fileUrl = msgs[f].res.fileUrl
\* C19 witness: the connection in the room has received one upload made under a
\* true flag, which is stored, and one made under a flag reset to false, which is
\* not.
C19_Witness ==
  /\ \E f \in 1..Len(msgs) :
       /\ msgs[f].kind = "file" /\ msgs[f].flag = "true"
       /\ f \in DOMAIN store /\ LivePos("c1", f) > 0
  /\ \E f \in 1..Len(msgs) :
       /\ msgs[f].kind = "file" /\ msgs[f].flag = "false"
       /\ f \notin DOMAIN store /\ LivePos("c1", f) > 0

\* C20: once the expiry of an uploaded file f is over, every connection that has
\* been in the room of f since the upload is sent a system event announcing the
\* expiry of f, as long as the process runs.
C20_ExpiryAnnounced ==
  \A f \in MsgId : \A c \in Conn :
    (f \in expired /\ c \in msgs[f].subs /\ c \in Subscribers(sockets, msgs[f].room))
      ~> \/ \E k \in 1..Len(inbox[c]) : inbox[c][k].ev = "expired" /\ inbox[c][k].id = f
         \/ proc # "running"

\* C21: a message of a connection that has joined the room is in the store, once
\* its handler has ended, exactly when the flag of the room was true as that
\* connection's joinRoom left it.
C21_StoredAsFlagAtJoin ==
  \A i \in 1..Len(msgs) :
    (msgs[i].kind = "text" /\ msgs[i].pc = "done" /\ msgs[i].joinFlag # "none") =>
      (i \in DOMAIN store <=> msgs[i].joinFlag = "true")

\* Some stored message points at file f.
Referenced(f) == \E i \in DOMAIN store : store[i].fileUrl = Url(f)

\* C22: no file is left both on disk and referenced by a stored message once
\* its expiry is over, nor, for a file the shutdown handler listed, once the
\* shutdown cleanup is over, whether the redacting update succeeded or failed.
C22_NeverBothLeft ==
  /\ \A f \in expired : ~(f \in disk /\ Referenced(f))
  /\ proc \in {"closing", "exited"} =>
       \A k \in 1..Len(sdFiles) : ~(sdFiles[k] \in disk /\ Referenced(sdFiles[k]))

\* C23: after SIGINT the process always reaches process.exit(0), and it exits
\* only from the point after close(), which it reaches only from the cleanup
\* step having ended, by success or by its catch.
C23_SigintExits ==
  /\ (proc = "shutting") ~> (proc = "exited")
  /\ [][(proc' = "exited" /\ proc # "exited") => proc = "closing"]_vars
  /\ [][(proc' = "closing" /\ proc # "closing") => proc = "shutting"]_vars
\* C23 witness: the process has exited after a cleanup whose update was rejected
\* (a listed file is still on disk and referenced).
C23_Witness ==
  /\ proc = "exited"
  /\ \E k \in 1..Len(sdFiles) : sdFiles[k] \in disk /\ Referenced(sdFiles[k])

\* C24: when mongoose.connect() has failed the process is not serving: it has
\* taken in no joinRoom, no message and no upload.
C24_NoServiceWithoutStore ==
  db = "failed" => (~Serving /\ nJoins = 0 /\ Len(msgs) = 0)

\* C25: the disconnect of a connection that has sent no joinRoom changes no
\* member set and sends no event to any connection.
C25_DisconnectWithoutJoin ==
  [][ \A c \in Conn :
        ( /\ sockets[c].connected /\ ~sockets'[c].connected
          /\ \A t \in attached : t[1] # c )
        => (rooms' = rooms /\ inbox' = inbox) ]_vars

\* C26: a joinRoom that is not flagged isCreator leaves every persistence flag as
\* it is, whatever persist it carries, and the persist field of every roomData
\* is the flag the room has, as creator-flagged requests left it.
C26_JoinerKeepsFlag ==
  [][ \A c \in Conn :
        /\ (joins[c].pc = "idle" /\ joins'[c].pc = "users" /\ ~joins'[c].isCreator)
             => roomPersistence' = roomPersistence
        /\ \A k \in (Len(inbox[c]) + 1)..Len(inbox'[c]) :
             inbox'[c][k].ev = "roomData" =>
               /\ roomPersistence' = roomPersistence
               /\ inbox'[c][k].persist = PersistField(inbox'[c][k].room) ]_vars
\* C26 witness: the creator of a room has been told its flag is false, and the
\* joinRoom of another connection, not flagged isCreator and carrying persist
\* true, has been taken in and has left the flag false.
C26_Witness ==
  \E c \in Conn : \E d \in Conn \ {c} :
    /\ joins[c].pc = "users" /\ ~joins[c].isCreator /\ joins[c].persist
    /\ PersistField(joins[c].room) = "false"
    /\ joins[c].room \in DOMAIN creator /\ creator[joins[c].room] = d
    /\ \E k \in 1..Len(inbox[d]) :
         /\ inbox[d][k].ev = "roomData"
         /\ inbox[d][k].room = joins[c].room
         /\ inbox[d][k].persist = "false"

\* C27: an upload request without a file is answered 400, and handling it
\* changes neither the store, nor the uploads directory, nor what has been
\* broadcast or delivered.
C27_NoFileRejected ==
  [][ (Len(msgs') > Len(msgs) /\ msgs'[Len(msgs')].kind = "nofile") =>
        /\ msgs'[Len(msgs')].res.status = "400"
        /\ UNCHANGED <<store, disk, bcast, inbox>> ]_vars
\* C27 witness: a request without a file has been answered while its room was
\* persistent and had a subscriber.
C27_Witness ==
  \E i \in 1..Len(msgs) :
    msgs[i].kind = "nofile" /\ msgs[i].flag = "true" /\ msgs[i].subs # {}

\* C28: no stored message points at a file that a sweep has removed from
\* uploads/ and whose deleteFile call has returned.
C28_SweepClearsReferences ==
  \A f \in expired \ disk : ~Referenced(f)

\* C29: a step that removes a file from uploads/ removes a file whose age has
\* reached FILE_EXPIRY_TIME, unless it is the cleanup of the SIGINT handler.
C29_NoEarlyRemoval ==
  [][ \A f \in disk \ disk' :
        f \in aged \/ (proc = "shutting" /\ proc' = "closing") ]_vars
\* C29 witness: a sweep has passed over a younger file, which stays on disk, and
\* has removed an older one.
C29_Witness ==
  /\ proc = "running"
  /\ sweep["s1"].pc = "await"
  /\ sweep["s1"].files[sweep["s1"].idx] \notin disk
  /\ \E k \in 1..(sweep["s1"].idx - 1) : sweep["s1"].files[k] \in disk \ aged

\* C30: a sweep whose unlink of a file fails goes on: while it runs, every file
\* of its listing up to its position that was expired when it started has been
\* removed or has had its unlink fail in this sweep, and when it ends that is so
\* for its whole listing; the process keeps running, and the file that failed,
\* still in uploads/ and expired, is listed by every later sweep.
C30_SweepSurvivesUnlinkFailure ==
  [][ LET w == sweep["s1"]
          v == sweep'["s1"]
      IN /\ proc = "running" => proc' = "running"
         /\ v.pc = "await" =>
              \A k \in 1..v.idx :
                v.files[k] \in v.old => (v.files[k] \notin disk' \/ v.files[k] \in v.failed)
         /\ (w.pc = "await" /\ v.pc = "idle") =>
              \A k \in 1..Len(w.files) :
                w.files[k] \in w.old => (w.files[k] \notin disk' \/ w.files[k] \in w.failed)
         /\ \A f \in w.failed : f \in disk' /\ f \in aged'
         /\ (w.pc = "idle" /\ v.pc = "await") =>
              \A f \in disk \cap aged : f \in v.old /\ SetHas(v.files, f) ]_vars
\* C30 witness: a sweep has removed a file on which an earlier deleteFile call had
\* returned without removing it, and a file listed after it is gone too.
C30_Witness ==
  LET w == sweep["s1"]
  IN /\ w.pc = "await"
     /\ w.files[w.idx] \notin disk
     /\ w.files[w.idx] \in expired
     /\ \E g \in expired : g > w.files[w.idx] /\ g \notin disk

\* C31: the messages a join handler sends to the joining connection (in roomData
\* or messageHistory) are the stored messages of the room, by ascending
\* createdAt, when the flag of the room was true as the join event was taken,
\* and none otherwise.
C31_HistoryIffPersistent ==
  [][ \A c \in Conn : \A k \in (Len(inbox[c]) + 1)..Len(inbox'[c]) :
        inbox'[c][k].ev \in {"roomData", "messageHistory"} =>
          inbox'[c][k].messages =
            (IF joins[c].flag = "true" THEN History(inbox'[c][k].room) ELSE <<>>) ]_vars

\* The positions of the events connection d receives in the step.
NewEvents(d) == (Len(inbox[d]) + 1)..Len(inbox'[d])

\* C32: when the joinRoom handler of a connected joiner ends without error, for
\* nickname n and room r, the joiner is sent one roomData, whose users list has
\* n, every other subscriber of r a roomUsers whose list has n, and every
\* subscriber of r the message 'n has joined the room'.
C32_JoinAnnounced ==
  [][ \A c \in Conn :
        ( /\ joins[c].pc \in {"users", "history"} /\ joins'[c].pc = "idle"
          /\ sockets[c].connected
          /\ \A k \in NewEvents(c) : inbox'[c][k].ev # "error" )
        => LET r == joins[c].room
               n == joins[c].username
           IN /\ Cardinality({k \in NewEvents(c) : inbox'[c][k].ev = "roomData"}) = 1
              /\ \A k \in NewEvents(c) :
                   inbox'[c][k].ev = "roomData" =>
                     inbox'[c][k].room = r /\ SetHas(inbox'[c][k].users, n)
              /\ \A d \in Subscribers(sockets, r) \ {c} :
                   \E k \in NewEvents(d) :
                     /\ inbox'[d][k].ev = "roomUsers" /\ inbox'[d][k].room = r
                     /\ SetHas(inbox'[d][k].users, n)
              /\ \A d \in Subscribers(sockets, r) :
                   \E k \in NewEvents(d) :
                     /\ inbox'[d][k].ev = "joined" /\ inbox'[d][k].room = r
                     /\ inbox'[d][k].who = n ]_vars

\* C33: the disconnect of a connection leaves in no member set a nickname that
\* this connection had added to it and no connected connection had.
C33_DisconnectRemovesOwn ==
  [][ \A c \in Conn :
        (sockets[c].connected /\ ~sockets'[c].connected) =>
          \A i \in 1..Len(rooms) : \A n \in Nick :
            ( /\ <<rooms[i].room, n>> \in sockets[c].added
              /\ \A d \in Conn \ {c} : <<rooms[i].room, n>> \notin sockets[d].added )
            => ~SetHas(rooms'[i].users, n) ]_vars

\* C34: every connected connection subscribed to a room is in the member set of
\* that room, under a nickname it joined the room with.
C34_SubscribersAreMembers ==
  \A c \in Conn : \A r \in sockets[c].rooms :
    sockets[c].connected =>
      /\ RoomsHas(rooms, r)
      /\ \E n \in Nick : <<r, n>> \in sockets[c].added /\ SetHas(RoomsGet(r), n)

\* C35: a text message that has been broadcast or stored was sent by a
\* connection that, when it sent it, had joined the room of the message and was
\* connected.
C35_OnlyMembersSend ==
  \A i \in 1..Len(msgs) :
    (msgs[i].kind = "text" /\ (Count(bcast, i) > 0 \/ i \in DOMAIN store)) =>
      msgs[i].joinFlag # "none"

\* C36: before the first roomData a connection receives for a room, it has
\* received no live message of that room sent by another connection that had
\* joined the room.
C36_NoLiveBeforeSnapshot ==
  \A c \in Conn : \A k \in 1..Len(inbox[c]) :
    ( /\ inbox[c][k].ev = "roomData"
      /\ \A j \in 1..(k - 1) :
           ~(inbox[c][j].ev = "roomData" /\ inbox[c][j].room = inbox[c][k].room) )
    => \A j \in 1..(k - 1) :
         ~( /\ inbox[c][j].ev = "message"
            /\ inbox[c][j].room = inbox[c][k].room
            /\ msgs[inbox[c][j].id].sender # c
            /\ msgs[inbox[c][j].id].joinFlag # "none" )

\* C37: when a joinRoom fails and its socket is sent the error, the member set
\* of the room has the nickname of the request, the socket is subscribed to the
\* room, and the flag of the room is set, exactly as before the request.
C37_FailedJoinNoEffect ==
  [][ \A c \in Conn :
        ( /\ joins[c].pc \in {"users", "history"}
          /\ \E k \in NewEvents(c) : inbox'[c][k].ev = "error" /\ inbox'[c][k].id = 0 )
        => LET r == joins[c].room
               b == joins[c].before
           IN /\ (\E i \in 1..Len(rooms') :
                     rooms'[i].room = r /\ SetHas(rooms'[i].users, joins[c].username))
                   <=> b.member
              /\ (r \in sockets'[c].rooms) <=> b.sub
              /\ IF r \in DOMAIN roomPersistence'
                 THEN b.flag = (IF roomPersistence'[r] THEN "true" ELSE "false")
                 ELSE b.flag = "undefined" ]_vars

\* C38: once the cleanup of the SIGINT handler is over, no file of its listing
\* is left in uploads/, whatever a sweep removed since the listing was taken.
C38_ShutdownRemovesListed ==
  proc \in {"closing", "exited"} =>
    \A k \in 1..Len(sdFiles) : sdFiles[k] \notin disk

\* C39: no file of an upload request that was answered 400 or 500 is in
\* uploads/.
C39_FailedUploadLeavesNoFile ==
  \A f \in 1..Len(msgs) :
    (msgs[f].kind \in {"file", "nofile"} /\ msgs[f].res.status \in {"400", "500"}) =>
      f \notin disk

\* C40: the users list of every roomData and roomUsers event has each nickname
\* at most once.
C40_UsersDistinct ==
  \A c \in Conn : \A k \in 1..Len(inbox[c]) :
    inbox[c][k].ev \in {"roomData", "roomUsers"} =>
      \A a \in 1..Len(inbox[c][k].users) : \A b \in 1..Len(inbox[c][k].users) :
        inbox[c][k].users[a] = inbox[c][k].users[b] => a = b
\* C40 witness: a roomData was sent while two connections had joined its room
\* under one nickname, which its users list has, and a roomUsers was sent on a
\* disconnect.
C40_Witness ==
  /\ \E c \in Conn : \E k \in 1..Len(inbox[c]) :
       /\ inbox[c][k].ev = "roomData"
       /\ \E t \in inbox[c][k].att : \E u \in inbox[c][k].att :
            t[1] # u[1] /\ t[3] = u[3] /\ SetHas(inbox[c][k].users, t[3])
  /\ \E c \in Conn : \E k \in 1..Len(inbox[c]) :
       inbox[c][k].ev = "left" /\ k > 1 /\ inbox[c][k - 1].ev = "roomUsers"

====
